---- MODULE Spec2Model ----
(***************************************************************************)
(* A model of two request handlers of rust-analyzer:                       *)
(*   - the `inline_function` assist                                        *)
(*       (crates/assists/src/handlers/inline_function.rs)                  *)
(*   - the import search find_exact_imports / find_similar_imports         *)
(*       (crates/ide_db/src/imports_locator.rs)                            *)
(* Both are synchronous, read-only functions of a snapshot.  A behaviour   *)
(* is one request: Init draws the snapshot and the request's parameters,   *)
(* the handler's action computes its whole result in one step.             *)
(***************************************************************************)
EXTENDS Integers, Sequences, FiniteSets, TLC

VARIABLES
    pc,                 \* "idle" | "start" | "done": position of the inline_function request
    ctx,                \* the AssistContext: syntax around the cursor and the semantic facts
    acc,                \* the Assists collection handed to inline_function, in order of registration
    ret,                \* inline_function's return value: None = <<>>, Some(()) = <<"unit">>
    ipc,                \* "idle" | "start" | "done": position of the import search
    req,                \* the import search request and the two backends' hits
    local_query,        \* the symbol_index::Query handed to the local index (an Option)
    external_query,     \* the import_map::Query handed to the import map (an Option)
    imports             \* the candidates the search returns, in iteration order

vars == <<pc, ctx, acc, ret, ipc, req, local_query, external_query, imports>>

inlineVars == <<pc, ctx, acc, ret>>
importVars == <<ipc, req, local_query, external_query, imports>>

\* ------------------------------------------------------------------ bounds

MaxArity  == 2      \* most arguments of a call, most parameters of a function
MaxStmts  == 2      \* most statements of a function body
MaxIndent == 1      \* deepest indentation level of the function and of the call
MaxHits   == 3      \* most hits the two search backends return together

\* ------------------------------------------------------------------ helpers

None == <<>>
Some(x) == <<x>>
IsSome(o) == Len(o) = 1
IsNone(o) == Len(o) = 0
Unwrap(o) == o[1]

Min(a, b) == IF a <= b THEN a ELSE b

Range(s) == {s[i] : i \in 1..Len(s)}

SeqsUpTo(S, n) == UNION {[1..k -> S] : k \in 0..n}

RECURSIVE Concat(_)
Concat(ss) == IF ss = <<>> THEN <<>> ELSE Head(ss) \o Concat(Tail(ss))

\* ------------------------------------------------------ the syntax tree

\* The ancestors of the token under the cursor, innermost first.
CursorChains == {
    <<"NAME_REF", "PATH_EXPR", "CALL_EXPR">>,                                  \* fo<|>o(1)
    <<"NAME_REF", "METHOD_CALL_EXPR">>,                                        \* x.ba<|>r()
    <<"NAME_REF", "PATH_EXPR", "METHOD_CALL_EXPR">>,                           \* F<|>oo.bar()
    <<"NAME_REF", "PATH_EXPR", "ARG_LIST", "CALL_EXPR">>,                      \* foo(a<|>)
    <<"NAME_REF", "PATH_EXPR", "ARG_LIST", "METHOD_CALL_EXPR">>,               \* x.bar(a<|>)
    <<"NAME_REF", "PATH_EXPR", "CALL_EXPR", "ARG_LIST", "METHOD_CALL_EXPR">>,  \* x.bar(fo<|>o(1))
    <<"NAME_REF", "METHOD_CALL_EXPR", "ARG_LIST", "CALL_EXPR">>,               \* foo(x.ba<|>r())
    <<"NAME_REF">>                                                             \* no expression
}

\* ctx.find_node_at_offset::<ast::PathExpr>(): the index of the nearest
\* ancestor that is a path expression.
find_node_at_offset(ancestors) ==
    LET hits == {i \in 1..Len(ancestors) : ancestors[i] = "PATH_EXPR"}
    IN  IF hits = {} THEN None
        ELSE Some(CHOOSE i \in hits : \A j \in hits : i <= j)

\* A cast that takes a method call for a call.
AnyCall_cast_parent(ancestors, path_expr) ==
    IF path_expr + 1 <= Len(ancestors)
       /\ ancestors[path_expr + 1] \in {"CALL_EXPR", "METHOD_CALL_EXPR"}
    THEN Some(path_expr + 1)
    ELSE None

\* path_expr.syntax().parent().and_then(ast::CallExpr::cast): the index of
\* the path expression's parent when that node is a call expression.
CallExpr_cast_parent(ancestors, path_expr) ==
    IF path_expr + 1 <= Len(ancestors) /\ ancestors[path_expr + 1] = "CALL_EXPR"
    THEN Some(path_expr + 1)
    ELSE None

\* ------------------------------------------------------ the semantic model

RootModule == "crate"
Modules == {"crate", "private", "other"}

\* The module tree: `private` and `other` are children of the crate root.
ParentModule(m) == IF m \in {"private", "other"} THEN Some("crate") ELSE None

RECURSIVE ModuleAncestors(_)
ModuleAncestors(m) ==
    {m} \cup (IF IsSome(ParentModule(m)) THEN ModuleAncestors(Unwrap(ParentModule(m))) ELSE {})

VisPublic == [tag |-> "Public", in |-> RootModule]
VisModule(m) == [tag |-> "Module", in |-> m]

\* function.is_visible_from(db, module)
is_visible_from(visibility, from_module) ==
    \/ visibility.tag = "Public"
    \/ visibility.in \in ModuleAncestors(from_module)

\* A function declaration: its module and visibility, its source-backed
\* body (an Option), its parameter list (an Option; each parameter has an
\* Option of a pattern) and the indentation of the `fn` keyword's line.
Bodies ==
    {None, Some([n |-> 0, multi |-> FALSE, tail |-> FALSE]),
           Some([n |-> 0, multi |-> FALSE, tail |-> TRUE])}
    \cup {Some([n |-> n, multi |-> m, tail |-> t]) :
            n \in 1..MaxStmts, m \in BOOLEAN, t \in BOOLEAN}

\* Parameter lists: at most one parameter without a pattern.
ParamLists ==
    {None} \cup
    {Some([i \in 1..n |-> IF i = k THEN None ELSE Some(<<"pat", i>>)]) :
        n \in 0..MaxArity, k \in 0..MaxArity}

\* The visibilities a function of module m can have: public, or restricted
\* to m or to a module above it.
Visibilities(m) == {VisPublic} \cup {VisModule(a) : a \in ModuleAncestors(m)}

Function(m, v, b, p, i) ==
    [module |-> m, visibility |-> v, body |-> b, param_list |-> p, indent |-> i]

\* The function a request that fails before path resolution never looks at.
NoFunction == Function(RootModule, VisPublic, None, None, 0)

\* Argument lists of the call: an Option of the argument expressions.
ArgLists == {None} \cup {Some([i \in 1..n |-> <<"arg", i>>]) : n \in 0..MaxArity}

\* The statements of a function body as syntax nodes.  A node's text starts
\* at its first token; the whitespace before the later lines of a
\* multi-line statement is part of the node and holds those lines'
\* indentation in the function's file: `ws` lists it, in levels.
body_statements(f) ==
    LET b == Unwrap(f.body)
    IN  [i \in 1..b.n |->
            [text |-> <<"stmt", i>>,
             ws   |-> IF b.multi THEN <<f.indent + 2, f.indent + 1>> ELSE <<>>]]

\* body.expr(): the trailing expression, a single line.
body_expr(f) ==
    IF Unwrap(f.body).tail THEN Some([text |-> <<"tail">>, ws |-> <<>>]) ELSE None

\* The AssistContext as inline_function reads it.
Context(a, p, r, s, f, args, ci) ==
    [ancestors |-> a, path |-> p, resolution |-> r, scope_module |-> s,
     function |-> f, arg_list |-> args, call_indent |-> ci]

\* The request of a behaviour that is an import search.
IdleContext ==
    Context(<<"NAME_REF">>, None, "None", Some(RootModule), NoFunction, None, 0)

\* ------------------------------------------------------ syntax construction

\* make::let_stmt(pattern, Some(value)): `let <pattern> = <value>;`
make_let_stmt(pattern, value) == [text |-> <<"let", pattern, value>>, ws |-> <<>>]

\* The lines a statement contributes to the text `    <stmt>\n`: its first
\* line one level deep, its later lines behind the whitespace they carry.
StmtLines(stmt) ==
    <<[ind |-> 1, text |-> stmt.text, part |-> 0]>> \o
    [k \in 1..Len(stmt.ws) |-> [ind |-> stmt.ws[k], text |-> stmt.text, part |-> k]]

\* make::block_expr(stmts, tail_expr): `{`, every statement and the tail
\* expression on lines of their own, `}`.  `lines` are the lines behind a
\* line break, each with the indentation (in levels) its whitespace holds;
\* `outer` is the indentation of the line the block's `{` stands on.
make_block_expr(stmts, tail_expr) ==
    [outer |-> 0,
     lines |-> Concat([i \in 1..Len(stmts) |-> StmtLines(stmts[i])])
               \o (IF IsSome(tail_expr) THEN StmtLines(Unwrap(tail_expr)) ELSE <<>>)
               \o <<[ind |-> 0, text |-> <<"}">>, part |-> 0]>>]

\* IndentLevel::from_node(node): the indentation of the line the node starts on.
IndentLevel_from_node(node) == node.outer

\* IndentLevel::increase_indent: every whitespace token of the node that
\* holds a line break gets `level` more levels; the first token stays put.
indent(node, level) ==
    [node EXCEPT !.lines = [k \in 1..Len(node.lines) |->
        [node.lines[k] EXCEPT !.ind = @ + level]]]

\* IndentLevel::decrease_indent: a line break followed by `level` levels
\* of indentation loses them.
dedent(node, level) ==
    [node EXCEPT !.lines = [k \in 1..Len(node.lines) |->
        [node.lines[k] EXCEPT !.ind = IF @ >= level THEN @ - level ELSE @]]]

\* AstNodeEdit::reset_indent
reset_indent(node) == dedent(node, IndentLevel_from_node(node))

\* ------------------------------------------------------ inline_function

\* Assists::add(id, label, target, f): the assist is registered with the
\* edit its closure builds, and Some(()) is returned.
Assists_add(assists, id, label, target, edit) ==
    [acc |-> Append(assists, [id |-> id, label |-> label, target |-> target, edit |-> edit]),
     ret |-> Some("unit")]

\* A collection of the patterns that skips the parameters without one.
function_parameter_patterns_skipping(function) ==
    IF IsNone(function.param_list) THEN None
    ELSE LET params == Unwrap(function.param_list)
         IN  Some(Concat([i \in 1..Len(params) |-> params[i]]))

\* function_parameter_patterns(value)
function_parameter_patterns(function) ==
    IF IsNone(function.param_list) THEN None
    ELSE LET params == Unwrap(function.param_list)
         IN  IF \E i \in 1..Len(params) : IsNone(params[i]) THEN None
             ELSE Some([i \in 1..Len(params) |-> Unwrap(params[i])])

\* The resolved path is PathResolution::Def(ModuleDef::Function(f)).
ResolvesToFunction(c) == c.resolution = "Function"

\* A visibility check from the function's own module.
VisibleFromOwnModule(function, current_module) ==
    is_visible_from(function.visibility, function.module)

\* !function.is_visible_from(ctx.db(), current_module) returns None
VisibleFromCaller(function, current_module) ==
    is_visible_from(function.visibility, current_module)

\* No check of the arity: zip pairs as many as both sides have.
ArityUnchecked(arguments, parameters) == TRUE

\* arguments.len() != parameters.len() returns None
ArityMatches(arguments, parameters) == Len(arguments) = Len(parameters)

\* parameters.into_iter().zip(arguments)
new_bindings(parameters, arguments) ==
    [i \in 1..Min(Len(parameters), Len(arguments)) |-> <<parameters[i], arguments[i]>>]

\* The body's statements ahead of the bindings.
Statements_body_first(bindings, function) ==
    body_statements(function)
    \o [i \in 1..Len(bindings) |-> make_let_stmt(bindings[i][1], bindings[i][2])]

\* The statements of the replacement block: one `let` per binding, then
\* the body's statements.
Statements(bindings, function) ==
    [i \in 1..Len(bindings) |-> make_let_stmt(bindings[i][1], bindings[i][2])]
    \o body_statements(function)

\* make::block_expr(statements, body.expr()).reset_indent().indent(original_indentation)
Replacement(statements, function, original_indentation) ==
    indent(reset_indent(make_block_expr(statements, body_expr(function))),
           original_indentation)

\* The whole handler: the assists collection and the return value it leaves.
inline_function(assists, c) ==
    LET none == [acc |-> assists, ret |-> None]
        path_expr == find_node_at_offset(c.ancestors)
    IN
    IF IsNone(path_expr) THEN none ELSE
    LET call == CallExpr_cast_parent(c.ancestors, Unwrap(path_expr)) IN
    IF IsNone(call) THEN none ELSE
    IF IsNone(c.path) THEN none ELSE
    IF ~ResolvesToFunction(c) THEN none ELSE
    IF IsNone(c.scope_module) THEN none ELSE
    IF ~VisibleFromCaller(c.function, Unwrap(c.scope_module)) THEN none ELSE
    IF IsNone(c.function.body) THEN none ELSE
    IF IsNone(c.arg_list) THEN none ELSE
    LET arguments == Unwrap(c.arg_list)
        parameters == function_parameter_patterns(c.function)
    IN
    IF IsNone(parameters) THEN none ELSE
    IF ~ArityMatches(arguments, Unwrap(parameters)) THEN none ELSE
    LET bindings == new_bindings(Unwrap(parameters), arguments)
        statements == Statements(bindings, c.function)
        replacement == Replacement(statements, c.function, c.call_indent)
    IN  Assists_add(assists, "inline_function", <<"Inline", Unwrap(c.path)>>,
                    Unwrap(call),
                    [replaced |-> Unwrap(call), with |-> replacement])

\* ------------------------------------------------------ import search: data

\* Search strings and symbol names.
Names == {"foo", "Foo"}

\* str::to_lowercase
Lower(s) == IF s = "Foo" THEN "foo" ELSE s

\* The limit both exact queries carry.
ExactLimit == 40

\* Either<ModuleDef, MacroDef>: what the search returns.  Two values are
\* the same declaration exactly when they are equal.
Left(kind, id) == [side |-> "Left", kind |-> kind, id |-> id]
Right(id) == [side |-> "Right", kind |-> "Macro", id |-> id]

FnFree     == Left("Function", 1)
FnAssoc    == Left("Function", 2)
ConstAssoc == Left("Const", 3)
AliasAssoc == Left("TypeAlias", 4)
StructDef  == Left("Adt", 5)
MacroItem  == Right(1)

\* The importable items of the dependencies, in a fixed listing.
ExternalUniverse == <<FnFree, FnAssoc, ConstAssoc, AliasAssoc, StructDef, MacroItem>>

\* The items the semantic model reports as associated items of a type:
\* as_assoc_item(db) is Some for them.
AssocItems == {FnAssoc, ConstAssoc, AliasAssoc}
as_assoc_item(item) == IF item \in AssocItems THEN Some(item) ELSE None

\* ide_db::defs::Definition: a module-level definition, a macro, or
\* something else (here a local variable).
Definition_ModuleDef(item) == [tag |-> "ModuleDef", item |-> item]
Definition_Macro(item) == [tag |-> "Macro", item |-> item]
Definition_Local == [tag |-> "Local", item |-> [side |-> "None", kind |-> "Local", id |-> 1]]

\* What NameClass::classify(sema, &name)?.defined(db) gives for a name.
Classifications ==
    <<None,
      Some(Definition_ModuleDef(FnFree)),
      Some(Definition_ModuleDef(FnAssoc)),
      Some(Definition_Macro(MacroItem)),
      Some(Definition_Local)>>

\* A FileSymbol of the local index, as get_name_definition sees it: the
\* kind of the node its pointer gives, whether that node has a NAME child,
\* and what the name classifies to.  A node without a name is never
\* classified.
FileSymbolUniverse ==
    [k \in 1..Len(Classifications) |->
        [node |-> "NAME", name_child |-> FALSE, class |-> Classifications[k]]]
    \o [k \in 1..Len(Classifications) |->
        [node |-> "FN", name_child |-> TRUE, class |-> Classifications[k]]]
    \o <<[node |-> "FN", name_child |-> FALSE, class |-> None]>>

\* The hits of a backend: the hash set the hits are merged into and the
\* per-hit filters do not depend on the order of the hits, so the hits are
\* listed in the order of the backend's universe (with repetitions).
IsSorted(s) == \A i \in 1..(Len(s) - 1) : s[i] <= s[i + 1]

HitLists(universe, n) ==
    {[i \in 1..Len(ix) |-> universe[ix[i]]] :
        ix \in {s \in SeqsUpTo(1..Len(universe), n) : IsSorted(s)}}

\* ------------------------------------------------------ import search: queries

\* symbol_index::Query::new(query)
symbol_index_Query_new(query) ==
    [query |-> query, lowercased |-> Lower(query), only_types |-> FALSE,
     libs |-> FALSE, exact |-> FALSE, limit |-> None]

\* symbol_index::Query::exact(), ::limit(n)
symbol_index_exact(q) == [q EXCEPT !.exact = TRUE]
symbol_index_limit(q, n) == [q EXCEPT !.limit = Some(n)]

\* import_map::Query::new(query)
import_map_Query_new(query) ==
    [query |-> query, lowercased |-> Lower(query), name_only |-> FALSE,
     search_mode |-> "Contains", case_sensitive |-> FALSE, limit |-> None]

\* import_map::Query::limit(n), ::name_only(), ::search_mode(m), ::case_sensitive()
import_map_limit(q, n) == [q EXCEPT !.limit = Some(n)]
import_map_name_only(q) == [q EXCEPT !.name_only = TRUE]
import_map_search_mode(q, mode) == [q EXCEPT !.search_mode = mode]
import_map_case_sensitive(q) == [q EXCEPT !.case_sensitive = TRUE]

\* Whether the local index returns a symbol of this name for the query:
\* the lowercased query selects by lowercased name, and an exact query
\* keeps only the symbols whose name equals the query.
symbol_index_accepts(q, symbol_name) ==
    /\ Lower(symbol_name) = q.lowercased
    /\ q.exact => symbol_name = q.query

\* Whether the import map returns an item of this name for an Equals query.
import_map_accepts(q, item_name) ==
    IF q.case_sensitive THEN item_name = q.query
    ELSE Lower(item_name) = q.lowercased

\* A local query that is not made exact.
fuzzy_local_query(name_to_import) ==
    symbol_index_limit(symbol_index_Query_new(name_to_import), ExactLimit)

\* find_exact_imports: the local query
exact_local_query(name_to_import) ==
    symbol_index_limit(symbol_index_exact(symbol_index_Query_new(name_to_import)), ExactLimit)

\* find_exact_imports: the dependency query
exact_external_query(name_to_import) ==
    import_map_case_sensitive(
        import_map_search_mode(
            import_map_name_only(
                import_map_limit(import_map_Query_new(name_to_import), ExactLimit)),
            "Equals"))

\* find_similar_imports: the dependency query
similar_external_query(fuzzy_search_string, limit, name_only) ==
    LET q0 == import_map_search_mode(import_map_Query_new(fuzzy_search_string), "Fuzzy")
        q1 == IF name_only THEN import_map_name_only(q0) ELSE q0
    IN  IF IsSome(limit) THEN import_map_limit(q1, Unwrap(limit)) ELSE q1

\* find_similar_imports: the local query
similar_local_query(fuzzy_search_string, limit) ==
    LET q0 == symbol_index_Query_new(fuzzy_search_string)
    IN  IF IsSome(limit) THEN symbol_index_limit(q0, Unwrap(limit)) ELSE q0

\* ------------------------------------------------------ import search: merging

\* Vec::push: a collection that keeps every hit.
Vec_push(set, x) == Append(set, x)

\* FxHashSet::insert: the set as the sequence its iteration gives.
FxHashSet_insert(set, x) == IF x \in Range(set) THEN set ELSE Append(set, x)

\* FxHashSet: collect() of an iterator, extend() by an iterator.
RECURSIVE FxHashSet_extend(_, _)
FxHashSet_extend(set, items) ==
    IF items = <<>> THEN set
    ELSE FxHashSet_extend(FxHashSet_insert(set, Head(items)), Tail(items))

\* get_name_definition(sema, import_candidate)
get_name_definition(import_candidate) ==
    IF import_candidate.node # "NAME" /\ ~import_candidate.name_child THEN None
    ELSE import_candidate.class

\* The match of find_imports on a Definition: a module-level definition
\* goes Left, a macro goes Right, anything else is dropped.
definition_to_candidate(name_definition_to_import) ==
    IF name_definition_to_import.tag = "ModuleDef" THEN Some(name_definition_to_import.item)
    ELSE IF name_definition_to_import.tag = "Macro" THEN Some(name_definition_to_import.item)
    ELSE None

\* A conversion that gives up at the first hit that does not resolve.
RECURSIVE local_candidates_until_failure(_)
local_candidates_until_failure(local_results) ==
    IF local_results = <<>> THEN <<>>
    ELSE LET definition == get_name_definition(Head(local_results))
             candidate == IF IsSome(definition)
                          THEN definition_to_candidate(Unwrap(definition))
                          ELSE None
         IN  IF IsNone(candidate) THEN <<>>
             ELSE candidate \o local_candidates_until_failure(Tail(local_results))

\* iter.filter_map(f): the Some results of f, in order.
RECURSIVE local_candidates(_)
local_candidates(local_results) ==
    IF local_results = <<>> THEN <<>>
    ELSE LET definition == get_name_definition(Head(local_results))
             candidate == IF IsSome(definition)
                          THEN definition_to_candidate(Unwrap(definition))
                          ELSE None
         IN  candidate \o local_candidates(Tail(local_results))

\* find_imports: dependencies first, then the local index, one hash set.
find_imports(external_hits, local_hits) ==
    LET candidates == FxHashSet_extend(<<>>, external_hits)
    IN  FxHashSet_extend(candidates, local_candidates(local_hits))

\* A filter that looks at functions only.
retain_candidate_functions_only(ignore_assoc_items, import_candidate) ==
    IF ignore_assoc_items
    THEN IF import_candidate.side = "Left" /\ import_candidate.kind = "Function"
            THEN IsNone(as_assoc_item(import_candidate))
         ELSE TRUE
    ELSE TRUE

\* The filter of find_similar_imports.
retain_candidate(ignore_assoc_items, import_candidate) ==
    IF ignore_assoc_items
    THEN IF import_candidate.side = "Left" /\ import_candidate.kind = "Function"
            THEN IsNone(as_assoc_item(import_candidate))
         ELSE IF import_candidate.side = "Left" /\ import_candidate.kind = "Const"
            THEN IsNone(as_assoc_item(import_candidate))
         ELSE IF import_candidate.side = "Left" /\ import_candidate.kind = "TypeAlias"
            THEN IsNone(as_assoc_item(import_candidate))
         ELSE TRUE
    ELSE TRUE

\* ------------------------------------------------------ import search: requests

Limits == {None, Some(1)}

Request(op, n, l, ig, no, e, lo) ==
    [op |-> op, name |-> n, limit |-> l, ignore_assoc_items |-> ig,
     name_only |-> no, external_hits |-> e, local_hits |-> lo]

\* The request of a behaviour that is a call of inline_function.
IdleRequest == Request("none", "foo", None, FALSE, FALSE, <<>>, <<>>)

\* The hits the two backends return for a request, MaxHits together.
InitHits(op, n, l, ig, no) ==
    \E e \in HitLists(ExternalUniverse, MaxHits) :
        \E lo \in HitLists(FileSymbolUniverse, MaxHits - Len(e)) :
            req = Request(op, n, l, ig, no, e, lo)

InitExact == \E n \in Names : InitHits("exact", n, None, FALSE, FALSE)

InitSimilar ==
    \E n \in Names, l \in Limits, ig \in BOOLEAN, no \in BOOLEAN :
        InitHits("similar", n, l, ig, no)

InitImports ==
    /\ ipc = "start"
    /\ InitExact \/ InitSimilar
    /\ local_query = None
    /\ external_query = None
    /\ imports = <<>>
    /\ pc = "idle"
    /\ ctx = IdleContext
    /\ acc = <<>>
    /\ ret = None

FindExactImports ==
    /\ ipc = "start"
    /\ req.op = "exact"
    /\ local_query' = Some(exact_local_query(req.name))
    /\ external_query' = Some(exact_external_query(req.name))
    /\ imports' = find_imports(req.external_hits, req.local_hits)
    /\ ipc' = "done"
    /\ UNCHANGED <<req, inlineVars>>

FindSimilarImports ==
    /\ ipc = "start"
    /\ req.op = "similar"
    /\ local_query' = Some(similar_local_query(req.name, req.limit))
    /\ external_query' = Some(similar_external_query(req.name, req.limit, req.name_only))
    /\ imports' = SelectSeq(find_imports(req.external_hits, req.local_hits),
                            LAMBDA c : retain_candidate(req.ignore_assoc_items, c))
    /\ ipc' = "done"
    /\ UNCHANGED <<req, inlineVars>>

NextImports == FindExactImports \/ FindSimilarImports

SpecImports == InitImports /\ [][NextImports]_vars

\* ------------------------------------------------------ inline requests

\* The collection as the handlers that ran before inline_function left it:
\* empty, or holding another handler's assist.
OtherAssist ==
    [id |-> "other_assist", label |-> <<"Other">>, target |-> 1,
     edit |-> [replaced |-> 1, with |-> [outer |-> 0, lines |-> <<>>]]]

PriorAssists == {<<>>, <<OtherAssist>>}

\* The cursor positions at which the handler finds a call.
CalleeChains ==
    {ch \in CursorChains :
        /\ IsSome(find_node_at_offset(ch))
        /\ IsSome(CallExpr_cast_parent(ch, Unwrap(find_node_at_offset(ch))))}

\* Requests whose cursor is on the callee of a call and whose path resolves
\* to a function: everything the handler reads afterwards varies.
InitResolved ==
    \E a \in CalleeChains, s \in {None} \cup {Some(m) : m \in Modules},
       m \in Modules, b \in Bodies, p \in ParamLists,
       i \in 0..MaxIndent, args \in ArgLists, ci \in 0..MaxIndent :
        \E v \in Visibilities(m) :
            ctx = Context(a, Some("foo"), "Function", s, Function(m, v, b, p, i), args, ci)

\* Requests that fail on the syntax or on path resolution: there is no
\* resolved function to look at.
InitUnresolved ==
    \E a \in CursorChains, p \in {None, Some("foo")},
       r \in {"None", "Function", "Adt", "Local"}, args \in {None, Some(<<>>)} :
        /\ a \notin CalleeChains \/ IsNone(p) \/ r # "Function"
        /\ ctx = Context(a, p, r, Some(RootModule), NoFunction, args, 0)

InitInline ==
    /\ pc = "start"
    /\ InitResolved \/ InitUnresolved
    /\ acc \in PriorAssists
    /\ ret = None
    /\ ipc = "idle"
    /\ req = IdleRequest
    /\ local_query = None
    /\ external_query = None
    /\ imports = <<>>

InlineFunction ==
    /\ pc = "start"
    /\ LET r == inline_function(acc, ctx)
       IN  /\ acc' = r.acc
           /\ ret' = r.ret
    /\ pc' = "done"
    /\ UNCHANGED <<ctx, importVars>>

NextInline == InlineFunction

SpecInline == InitInline /\ [][NextInline]_vars

\* ------------------------------------------------------ inline_function: properties

\* What the properties say about a finished request, stated on the request
\* itself and not through the handler's own helpers.
Done == pc = "done"

\* Nothing was returned and the collection holds no assist of this handler.
NoAssist ==
    /\ ret = None
    /\ \A i \in 1..Len(acc) : acc[i].id # "inline_function"

TheAssist == acc[Len(acc)]

\* The cursor is on the callee of a plain call: the nearest path expression
\* above it has a call expression as its parent.
OnCallee(c) ==
    \E i \in 1..Len(c.ancestors) :
        /\ c.ancestors[i] = "PATH_EXPR"
        /\ \A j \in 1..(i - 1) : c.ancestors[j] # "PATH_EXPR"
        /\ i < Len(c.ancestors)
        /\ c.ancestors[i + 1] = "CALL_EXPR"

\* The function is visible from the module of the call's scope.
VisibleFromScope(c) ==
    /\ IsSome(c.scope_module)
    /\ \/ c.function.visibility.tag = "Public"
       \/ c.function.visibility.in \in ModuleAncestors(Unwrap(c.scope_module))

AllPatterns(c) ==
    /\ IsSome(c.function.param_list)
    /\ \A i \in 1..Len(Unwrap(c.function.param_list)) :
          IsSome(Unwrap(c.function.param_list)[i])

NumParams(c) == Len(Unwrap(c.function.param_list))
NumArgs(c) == Len(Unwrap(c.arg_list))

SameArity(c) ==
    /\ IsSome(c.arg_list)
    /\ IsSome(c.function.param_list)
    /\ NumArgs(c) = NumParams(c)

\* Every precondition of the assist.
Applicable(c) ==
    /\ OnCallee(c)
    /\ IsSome(c.path)
    /\ c.resolution = "Function"
    /\ VisibleFromScope(c)
    /\ IsSome(c.function.body)
    /\ IsSome(c.arg_list)
    /\ AllPatterns(c)
    /\ SameArity(c)

\* C1: a call whose number of arguments differs from the number of declared
\* parameters of the resolved function gets no result and no assist.
C1_ArityMismatchNoResult ==
    ( /\ Done
      /\ ctx.resolution = "Function"
      /\ IsSome(ctx.arg_list)
      /\ IsSome(ctx.function.param_list)
      /\ NumArgs(ctx) # NumParams(ctx) )
    => NoAssist

\* A call with two arguments to a visible one-parameter function with a body
\* was refused.
C1_Witness ==
    /\ Done
    /\ OnCallee(ctx) /\ IsSome(ctx.path) /\ ctx.resolution = "Function"
    /\ VisibleFromScope(ctx) /\ IsSome(ctx.function.body) /\ AllPatterns(ctx)
    /\ IsSome(ctx.arg_list) /\ NumArgs(ctx) = 2 /\ NumParams(ctx) = 1
    /\ NoAssist

\* C2: a call whose target is not visible from the module of the caller's
\* scope gets no result, whatever else holds of the call.
C2_InvisibleNoResult ==
    ( /\ Done
      /\ ctx.resolution = "Function"
      /\ IsSome(ctx.scope_module)
      /\ ~VisibleFromScope(ctx) )
    => NoAssist

\* private::add(1, 2) called from the crate root: the path resolves, the
\* function has a body and the arity matches, and the call was refused.
C2_Witness ==
    /\ Done
    /\ OnCallee(ctx) /\ IsSome(ctx.path) /\ ctx.resolution = "Function"
    /\ ctx.scope_module = Some("crate")
    /\ ctx.function.module = "private"
    /\ ctx.function.visibility = VisModule("private")
    /\ IsSome(ctx.function.body) /\ AllPatterns(ctx) /\ SameArity(ctx)
    /\ NumArgs(ctx) = 2
    /\ NoAssist

\* The first lines of the statements of a block, in order (the last line of
\* a block is its closing brace).
StatementHeads(block) ==
    LET inner == SubSeq(block.lines, 1, Len(block.lines) - 1)
        heads == SelectSeq(inner, LAMBDA l : l.part = 0)
    IN  [k \in 1..Len(heads) |-> heads[k].text]

\* The block the specification describes for a request: the i-th binding
\* pairs the i-th pattern with the i-th argument, then the body statements
\* in order, then the trailing expression.
ExpectedHeads(c) ==
    [i \in 1..NumParams(c) |->
        <<"let", Unwrap(Unwrap(c.function.param_list)[i]), Unwrap(c.arg_list)[i]>>]
    \o [i \in 1..Unwrap(c.function.body).n |-> <<"stmt", i>>]
    \o (IF Unwrap(c.function.body).tail THEN << <<"tail">> >> ELSE <<>>)

\* C3: a function with N parameters and a body, called with N arguments,
\* gives a block of N leading bindings in parameter order, then the body's
\* statements in order, then the trailing expression if there is one.
C3_BlockShape ==
    (Done /\ Applicable(ctx)) =>
        /\ IsSome(ret)
        /\ Len(acc) >= 1
        /\ TheAssist.id = "inline_function"
        /\ StatementHeads(TheAssist.edit.with) = ExpectedHeads(ctx)

\* foo(1, 2) with two parameters, two body statements and a trailing
\* expression was inlined.
C3_Witness ==
    /\ Done /\ Applicable(ctx) /\ IsSome(ret)
    /\ NumParams(ctx) = 2
    /\ Unwrap(ctx.function.body).n = 2
    /\ Unwrap(ctx.function.body).tail

\* A function without parameters gives a block without bindings.
C3_WitnessZero ==
    /\ Done /\ Applicable(ctx) /\ IsSome(ret)
    /\ NumParams(ctx) = 0
    /\ Unwrap(ctx.function.body).n = 1

\* C4, as stated: wherever the cursor is inside a method call, no assist
\* is registered.
C4_NoEditInsideMethodCall ==
    (Done /\ "METHOD_CALL_EXPR" \in Range(ctx.ancestors)) => NoAssist

\* C4, amended: an assist is registered only when the nearest path
\* expression above the cursor has a call expression as its parent, and the
\* node the edit replaces is that call expression, never a method call.
C4_OnlyPlainCallsReplaced ==
    Done =>
        /\ ~OnCallee(ctx) => NoAssist
        /\ IsSome(ret) =>
              /\ ctx.ancestors[TheAssist.edit.replaced] = "CALL_EXPR"
              /\ TheAssist.edit.replaced > 1
              /\ ctx.ancestors[TheAssist.edit.replaced - 1] = "PATH_EXPR"
              /\ \A j \in 1..(TheAssist.edit.replaced - 2) : ctx.ancestors[j] # "PATH_EXPR"
              /\ TheAssist.target = TheAssist.edit.replaced

\* The cursor was on the name of a method call and nothing was registered.
C4_Witness ==
    /\ Done
    /\ ctx.ancestors = <<"NAME_REF", "METHOD_CALL_EXPR">>
    /\ ctx.resolution = "Function"
    /\ NoAssist

\* The text the specification describes for the block at a call indented
\* `level` deep: statements one level inside the call's line, the later
\* lines of a multi-line statement where they stood relative to its first
\* line, the closing brace on the call's level.
ExpectedLines(c, level) ==
    LET b == Unwrap(c.function.body)
        lets == [i \in 1..NumParams(c) |->
                    <<[ind |-> level + 1, part |-> 0,
                       text |-> <<"let", Unwrap(Unwrap(c.function.param_list)[i]),
                                  Unwrap(c.arg_list)[i]>>]>>]
        stmts == [i \in 1..b.n |->
                    <<[ind |-> level + 1, part |-> 0, text |-> <<"stmt", i>>]>>
                    \o (IF b.multi
                        THEN <<[ind |-> level + 2, part |-> 1, text |-> <<"stmt", i>>],
                               [ind |-> level + 1, part |-> 2, text |-> <<"stmt", i>>]>>
                        ELSE <<>>)]
    IN  Concat(lets) \o Concat(stmts)
        \o (IF b.tail THEN <<[ind |-> level + 1, part |-> 0, text |-> <<"tail">>]>> ELSE <<>>)
        \o <<[ind |-> level, part |-> 0, text |-> <<"}">>]>>

\* C8: the replacement block is indented to the call's level, whatever the
\* indentation of the function's own body.
C8_ReindentedToCallSite ==
    (Done /\ IsSome(ret)) =>
        TheAssist.edit.with.lines = ExpectedLines(ctx, ctx.call_indent)

\* C8 for bodies whose statements each stand on one line.
C8_SingleLineReindented ==
    (Done /\ IsSome(ret) /\ ~Unwrap(ctx.function.body).multi) =>
        TheAssist.edit.with.lines = ExpectedLines(ctx, ctx.call_indent)

\* C9: an assist is registered only when every precondition holds; when
\* one fails there is no result and the collection is left as it was.
C9_AllPreconditions ==
    /\ [](Done /\ (IsSome(ret) \/ ~NoAssist) => Applicable(ctx))
    /\ [][(pc = "start" /\ ~Applicable(ctx)) => (ret' = None /\ acc' = acc)]_vars
    /\ [][(pc = "start" /\ Applicable(ctx)) =>
            (IsSome(ret') /\ Len(acc') = Len(acc) + 1
             /\ SubSeq(acc', 1, Len(acc)) = acc
             /\ acc'[Len(acc')].id = "inline_function")]_vars

\* Every precondition but one held: the second parameter has no pattern,
\* and the call was refused.
C9_Witness ==
    /\ Done
    /\ OnCallee(ctx) /\ IsSome(ctx.path) /\ ctx.resolution = "Function"
    /\ VisibleFromScope(ctx) /\ IsSome(ctx.function.body)
    /\ SameArity(ctx) /\ NumParams(ctx) = 2
    /\ IsSome(Unwrap(ctx.function.param_list)[1])
    /\ IsNone(Unwrap(ctx.function.param_list)[2])
    /\ ret = None
    /\ acc = <<OtherAssist>>

\* ------------------------------------------------------ both handlers

Init == InitInline \/ InitImports

Next == NextInline \/ NextImports

Spec == Init /\ [][Next]_vars

\* ------------------------------------------------------ import search: properties

Searched == ipc = "done"

\* The candidates a local hit stands for, stated on the hit: its node is a
\* NAME or has a NAME child, and the name classifies to a module-level
\* definition or to a macro.
Resolves(symbol) ==
    /\ symbol.node = "NAME" \/ symbol.name_child
    /\ IsSome(symbol.class)
    /\ Unwrap(symbol.class).tag \in {"ModuleDef", "Macro"}

\* The union of the two backends' results.
MergedSet(r) ==
    Range(r.external_hits)
    \cup {Unwrap(r.local_hits[i].class).item :
            i \in {j \in 1..Len(r.local_hits) : Resolves(r.local_hits[j])}}

\* The merged candidates is what the search returns, unless
\* find_similar_imports filters associated items out.
Unfiltered(r) == r.op = "exact" \/ ~r.ignore_assoc_items

\* C5: the candidates returned hold no declaration twice.
C5_NoDuplicateCandidates ==
    Searched =>
        /\ \A i, j \in 1..Len(imports) : i # j => imports[i] # imports[j]
        /\ Unfiltered(req) => Len(imports) = Cardinality(MergedSet(req))

\* An exact search found the same function in the dependencies and in the
\* local index, the local index returning it twice, and returned it once.
C5_Witness ==
    /\ Searched
    /\ req.op = "exact"
    /\ FnFree \in Range(req.external_hits)
    /\ Len(req.local_hits) = 2
    /\ \A i \in 1..2 : Resolves(req.local_hits[i]) /\ Unwrap(req.local_hits[i].class).item = FnFree
    /\ imports = <<FnFree>>

\* The associated items the filter removes.
FilteredOut(r) ==
    {c \in MergedSet(r) :
        c.side = "Left" /\ c.kind \in {"Function", "Const", "TypeAlias"} /\ c \in AssocItems}

\* C6: with ignore_assoc_items the result is the merged candidates minus
\* the functions, constants and type aliases that are associated items;
\* without it the result is the merged candidates.
C6_AssocFilter ==
    (Searched /\ req.op = "similar") =>
        Range(imports) = IF req.ignore_assoc_items
                         THEN MergedSet(req) \ FilteredOut(req)
                         ELSE MergedSet(req)

\* A search that ignores associated items removed an associated constant
\* and kept a macro and a struct.
C6_Witness ==
    /\ Searched
    /\ req.op = "similar"
    /\ req.ignore_assoc_items
    /\ Range(req.external_hits) = {ConstAssoc, StructDef, MacroItem}
    /\ Range(imports) = {StructDef, MacroItem}

\* A search that does not ignore them kept an associated function.
C6_WitnessKept ==
    /\ Searched
    /\ req.op = "similar"
    /\ ~req.ignore_assoc_items
    /\ FnAssoc \in Range(imports)

\* C7: find_exact_imports hands the local index an exact, case-sensitive
\* query and the import map an equals-match, name-only, case-sensitive
\* query, both for the name given and with the same limit.
C7_ExactQueries ==
    (Searched /\ req.op = "exact") =>
        /\ IsSome(local_query) /\ IsSome(external_query)
        /\ Unwrap(local_query).query = req.name
        /\ Unwrap(external_query).query = req.name
        /\ Unwrap(local_query).exact
        /\ Unwrap(local_query).limit = Some(ExactLimit)
        /\ Unwrap(external_query).limit = Unwrap(local_query).limit
        /\ Unwrap(external_query).search_mode = "Equals"
        /\ Unwrap(external_query).name_only
        /\ Unwrap(external_query).case_sensitive
        /\ \A n \in Names :
              /\ symbol_index_accepts(Unwrap(local_query), n) <=> n = req.name
              /\ import_map_accepts(Unwrap(external_query), n) <=> n = req.name

\* An exact search for "Foo" ran.
C7_Witness ==
    /\ Searched
    /\ req.op = "exact"
    /\ req.name = "Foo"
    /\ IsSome(local_query)
    /\ ~symbol_index_accepts(Unwrap(local_query), "foo")

\* C10: a local hit that does not resolve to a module-level definition or a
\* macro is dropped, and nothing else is: the search ends, every dependency
\* hit and every local hit that resolves is returned, and nothing besides.
C10_DroppedEntriesOnly ==
    (Searched /\ Unfiltered(req)) => Range(imports) = MergedSet(req)

\* The local index returned a hit without a name, a hit that resolves to a
\* macro and a hit that classifies to a local variable; the search returned
\* the macro.
C10_Witness ==
    /\ Searched
    /\ req.op = "exact"
    /\ req.external_hits = <<>>
    /\ Len(req.local_hits) = 3
    /\ \E i \in 1..3 : req.local_hits[i].node = "FN" /\ ~req.local_hits[i].name_child
    /\ \E i \in 1..3 : req.local_hits[i].class = Some(Definition_Local)
    /\ imports = <<MacroItem>>

====
